---------------------------- MODULE Spec2Model ----------------------------
(***************************************************************************)
(* A model of the SRTM terrain converter (terrain_converter.py) and of the *)
(* folder-name logic of its verifier (verify_terrain.py).                  *)
(*                                                                         *)
(* Coordinates are Python floats in the code.  The model keeps them as     *)
(* integers counting eighths of a degree, which are exact binary floats,   *)
(* so floor, is_integer, int() and the ".2f" format are computed exactly   *)
(* as Python computes them.  Strings are sequences of one-character        *)
(* strings, so that formatting and matching are computed, not assumed.     *)
(***************************************************************************)
EXTENDS Integers, Sequences, FiniteSets, TLC

VARIABLES
    pc,                  \* position of main(), or of the function under study
    args,                \* the parsed command line (a record)
    call,                \* arguments of the pure function under study
    ret,                 \* its return value
    earthdata,           \* the archives below the search directory (a set)
    todo,                \* cells the discovery loops still have to visit
    lookups,             \* the cells looked up so far, with their tile names
    extraction_tasks,    \* main's extraction_tasks list
    tpc,                 \* position of each worker's extract_tile_task call
    results,             \* the value each extract_tile_task call returned
    temp_dir,            \* the scratch directory: path -> what lies there
    src_files_to_mosaic, \* main's src_files_to_mosaic list
    src_datasets,        \* the rasters rasterio.open returned, in order
    mosaic,              \* the merged raster (with its transform and nodata)
    out_image,           \* the clipped raster (with out_transform)
    samples,             \* rows, cols and elevations (flattened, then masked)
    gdf,                 \* the GeoDataFrame: a sequence of points
    shp,                 \* the files to_file wrote: [folder, points], in order
    verifier,            \* the folder name verify_terrain.py derived: option
    log,                 \* the messages printed, in order
    trace                \* the stages main() entered, in order

vars == <<pc, args, call, ret, earthdata, todo, lookups, extraction_tasks,
          tpc, results, temp_dir, src_files_to_mosaic, src_datasets, mosaic,
          out_image, samples, gdf, shp, verifier, log, trace>>

-----------------------------------------------------------------------------
(* Numbers and strings *)

\* Eighths of a degree per degree: the fixed-point unit of every coordinate.
TicksPerDeg == 8

\* Ticks per raster pixel: a tile is 2 x 2 pixels, a pixel centre lies half
\* a pixel (2 ticks) inside its cell.
PixelTicks == 4

\* The SRTM nodata sentinel the converter compares elevations with.
NODATA == -32768

None == <<>>
Some(v) == <<v>>

Abs(n) == IF n < 0 THEN -n ELSE n
Min(a, b) == IF a < b THEN a ELSE b
Max(a, b) == IF a > b THEN a ELSE b

\* math.floor of a coordinate, in whole degrees.
Floor(t) == t \div TicksPerDeg

\* ceil(a / b) for b > 0.
CeilDiv(a, b) == -((-a) \div b)

DigitChars == <<"0", "1", "2", "3", "4", "5", "6", "7", "8", "9">>

RECURSIVE Decimal(_)
\* str(n) for n >= 0: the decimal digits, most significant first.
Decimal(n) ==
    IF n < 10 THEN <<DigitChars[n + 1]>>
    ELSE Decimal(n \div 10) \o <<DigitChars[(n % 10) + 1]>>

RECURSIVE ZeroPad(_, _)
\* The "0<w>d" format: zeros on the left up to width w, never truncating.
ZeroPad(s, w) == IF Len(s) >= w THEN s ELSE ZeroPad(<<"0">> \o s, w)

\* Whether sequence t occurs in s at position i.
OccursAt(s, t, i) ==
    /\ i >= 1
    /\ i + Len(t) - 1 <= Len(s)
    /\ SubSeq(s, i, i + Len(t) - 1) = t

\* Python's "t in s".
Contains(s, t) == \E i \in 1..(Len(s) + 1) : OccursAt(s, t, i)

\* str.startswith and str.endswith.
StartsWith(s, t) == OccursAt(s, t, 1)
EndsWith(s, t) == OccursAt(s, t, Len(s) - Len(t) + 1)

LowerChar(c) ==
    CASE c = "H" -> "h" [] c = "G" -> "g" [] c = "T" -> "t"
      [] c = "Z" -> "z" [] c = "I" -> "i" [] c = "P" -> "p"
      [] c = "N" -> "n" [] c = "S" -> "s" [] c = "E" -> "e"
      [] c = "W" -> "w" [] c = "U" -> "u" [] c = "M" -> "m"
      [] OTHER -> c

\* str.lower.
Lower(s) == [i \in 1..Len(s) |-> LowerChar(s[i])]

-----------------------------------------------------------------------------
(* get_tile_name *)

\* A variant that truncates towards zero instead of taking the floor.
get_tile_name_NoFloor(lat, lon) ==
    LET ns == IF lat >= 0 THEN "N" ELSE "S"
        ew == IF lon >= 0 THEN "E" ELSE "W"
    IN  <<ns>> \o ZeroPad(Decimal(Abs(lat) \div TicksPerDeg), 2)
          \o <<ew>> \o ZeroPad(Decimal(Abs(lon) \div TicksPerDeg), 3)

get_tile_name(lat, lon) ==
    LET ns == IF lat >= 0 THEN "N" ELSE "S"
        ew == IF lon >= 0 THEN "E" ELSE "W"
    IN  <<ns>> \o ZeroPad(Decimal(Abs(Floor(lat))), 2)
          \o <<ew>> \o ZeroPad(Decimal(Abs(Floor(lon))), 3)


-----------------------------------------------------------------------------
(* find_tile_zip *)

\* An archive below the search directory is [dir, base, sw, members, state]:
\* dir and base are the two parts of its path, sw the south-west corner (in
\* degrees) of the raster it holds, members its namelist, state how reading
\* it goes.  The full path, as glob returns it and line 55 lowers it:
PathOf(f) == f.dir \o <<"/">> \o f.base

ZipExt == <<".", "z", "i", "p">>
HgtZipExt == <<".", "h", "g", "t", ".", "z", "i", "p">>

\* os.path.basename(f).startswith('._')
IsMacMetadata(f) == StartsWith(f.base, <<".", "_">>)

\* fnmatch of the base name against "*<tile_name>*.zip".  glob does not let
\* a leading "*" match a name that starts with a dot, nor "**" descend into
\* a directory whose name starts with one.
GlobMatches(f, tile_name) ==
    /\ f.base # <<>>
    /\ f.base[1] # "."
    /\ ~Contains(f.dir, <<"/", ".">>)
    /\ EndsWith(f.base, ZipExt)
    /\ \E i \in 1..Len(f.base) :
          /\ OccursAt(f.base, tile_name, i)
          /\ i + Len(tile_name) - 1 <= Len(f.base) - Len(ZipExt)

RECURSIVE Orderings(_)
\* Every list that holds each element of S once.
Orderings(S) ==
    IF S = {} THEN {<<>>}
    ELSE UNION {{<<x>> \o p : p \in Orderings(S \ {x})} : x \in S}

\* glob.glob(pattern, recursive=True): the matching files, in an order the
\* directory scan decides.
glob(tile_name, dirents) ==
    Orderings({f \in dirents : GlobMatches(f, tile_name)})

\* Lines 49-59, applied to the list glob returned.
find_tile_zip(globbed) ==
    LET files == SelectSeq(globbed, LAMBDA f : ~IsMacMetadata(f))
        hgt_files ==
            SelectSeq(files, LAMBDA f : Contains(Lower(PathOf(f)), HgtZipExt))
    IN  IF files = <<>> THEN None
        ELSE IF hgt_files # <<>> THEN Some(hgt_files[1])
        ELSE Some(files[1])

-----------------------------------------------------------------------------
(* format_coord_val (converter) and format_val (verifier) *)

\* round(num / den) to the nearest integer, ties to even: what the "f"
\* format does with a value it can represent exactly.  num >= 0, den > 0.
RoundHalfEven(num, den) ==
    LET q == num \div den
        r == num % den
    IN  IF 2 * r < den THEN q
        ELSE IF 2 * r > den THEN q + 1
        ELSE IF q % 2 = 0 THEN q ELSE q + 1

\* f"{abs_val:.2f}" for abs_val >= 0 given in ticks.
TwoDecimals(abs_val) ==
    LET h == RoundHalfEven(abs_val * 100, TicksPerDeg)
    IN  Decimal(h \div 100) \o <<".">> \o ZeroPad(Decimal(h % 100), 2)

\* float.is_integer
IsInteger(val) == val % TicksPerDeg = 0

\* int(val): truncation towards zero, in whole degrees.
IntOf(val) == IF val >= 0 THEN val \div TicksPerDeg
              ELSE -((-val) \div TicksPerDeg)

format_coord_val(val, is_lat) ==
    LET direction == IF is_lat THEN (IF val >= 0 THEN "N" ELSE "S")
                     ELSE (IF val >= 0 THEN "E" ELSE "W")
        abs_val == Abs(val)
    IN  IF IsInteger(abs_val) THEN <<direction>> \o Decimal(IntOf(abs_val))
        ELSE <<direction>> \o TwoDecimals(abs_val)

\* Lines 273-275 of the converter.
converter_folder_name(a) ==
    LET min_str == format_coord_val(a.min_lat, TRUE)
                     \o format_coord_val(a.min_lon, FALSE)
        max_str == format_coord_val(a.max_lat, TRUE)
                     \o format_coord_val(a.max_lon, FALSE)
    IN  min_str \o <<"_">> \o max_str

\* The verifier's format_val of its has_decimal branch (lines 106-109).
format_val_decimal(val, is_lat) ==
    LET direction == IF is_lat THEN (IF val >= 0 THEN "N" ELSE "S")
                     ELSE (IF val >= 0 THEN "E" ELSE "W")
        abs_val == Abs(val)
    IN  IF IsInteger(abs_val) THEN <<direction>> \o Decimal(IntOf(abs_val))
        ELSE <<direction>> \o TwoDecimals(abs_val)

\* The verifier's format_val of its other branch (lines 118-121).
format_val_integer(val, is_lat) ==
    LET direction == IF is_lat THEN (IF val >= 0 THEN "N" ELSE "S")
                     ELSE (IF val >= 0 THEN "E" ELSE "W")
        abs_val == Abs(val)
    IN  IF IsInteger(abs_val) THEN <<direction>> \o Decimal(IntOf(abs_val))
        ELSE <<direction>> \o TwoDecimals(abs_val)

\* A variant that formats every bound by its whole part.
verifier_folder_name_Truncating(a) ==
    LET fmt(val, is_lat) ==
            <<IF is_lat THEN (IF val >= 0 THEN "N" ELSE "S")
              ELSE (IF val >= 0 THEN "E" ELSE "W")>>
              \o Decimal(IntOf(Abs(val)))
    IN  fmt(a.min_lat, TRUE) \o fmt(a.min_lon, FALSE) \o <<"_">>
          \o fmt(a.max_lat, TRUE) \o fmt(a.max_lon, FALSE)

\* Lines 95-125 of the verifier, given the four bounds.
verifier_folder_name(a) ==
    LET has_decimal ==
            \E val \in {a.min_lon, a.max_lon, a.min_lat, a.max_lat} :
                val # IntOf(val) * TicksPerDeg
    IN  IF has_decimal
        THEN format_val_decimal(a.min_lat, TRUE)
               \o format_val_decimal(a.min_lon, FALSE) \o <<"_">>
               \o format_val_decimal(a.max_lat, TRUE)
               \o format_val_decimal(a.max_lon, FALSE)
        ELSE format_val_integer(a.min_lat, TRUE)
               \o format_val_integer(a.min_lon, FALSE) \o <<"_">>
               \o format_val_integer(a.max_lat, TRUE)
               \o format_val_integer(a.max_lon, FALSE)

-----------------------------------------------------------------------------
(* main: tile discovery (lines 90-133) *)

\* list(range(a, b + 1))
RangeSeq(a, b) == IF b < a THEN <<>> ELSE [i \in 1..(b - a + 1) |-> a + i - 1]

RECURSIVE Flatten(_)
Flatten(ss) == IF ss = <<>> THEN <<>> ELSE Head(ss) \o Flatten(Tail(ss))

\* The cells the nested loops of lines 103-104 visit, in their order.
LoopCells(lat_range, lon_range) ==
    Flatten([i \in 1..Len(lat_range) |->
                [j \in 1..Len(lon_range) |->
                    [lat |-> lat_range[i], lon |-> lon_range[j]]]])

lat_range(a) == RangeSeq(Floor(a.min_lat), Floor(a.max_lat))

\* A variant of line 95 without the "+ 1".
lon_range_Exclusive(a) == RangeSeq(Floor(a.min_lon), Floor(a.max_lon) - 1)

lon_range(a) == RangeSeq(Floor(a.min_lon), Floor(a.max_lon))

RECURSIVE Basename(_)
\* os.path.basename of a member name.
Basename(s) ==
    IF ~Contains(s, <<"/">>) THEN s ELSE Basename(Tail(s))

\* Line 112-113: the members that are elevation data.
Candidates(all_files) ==
    SelectSeq(all_files,
        LAMBDA f : /\ \/ EndsWith(f, <<".", "h", "g", "t">>)
                      \/ EndsWith(f, <<".", "t", "i", "f">>)
                   /\ ~StartsWith(Basename(f), <<".", "_">>))

\* Line 115.
NumFiles(all_files) ==
    SelectSeq(all_files, LAMBDA f : EndsWith(f, <<".", "n", "u", "m">>))

\* os.path.join(temp_dir, target_file); temp_dir is the same for every task.
ExpectedPath(task) == <<"t", "m", "p", "/">> \o task.target_file

\* Lines 91-98: the ranges are computed and the loops are entered.
Ranges ==
    /\ pc = "start"
    /\ todo' = LoopCells(lat_range(args), lon_range(args))
    /\ pc' = "discover"
    /\ trace' = Append(trace, "discover")
    /\ UNCHANGED <<args, call, ret, earthdata, lookups, extraction_tasks, tpc,
                   results, temp_dir, src_files_to_mosaic, src_datasets, mosaic, out_image,
                   samples, gdf, shp, verifier, log>>

\* What one loop iteration (lines 105-129) does with the archive it found.
TasksAfter(tasks, zip_path) ==
    IF zip_path = None \/ zip_path[1].state = "notzip" THEN tasks
    ELSE LET candidates == Candidates(zip_path[1].members)
         IN  IF candidates = <<>> THEN tasks
             ELSE Append(tasks, [zip |-> zip_path[1],
                                 target_file |-> candidates[1]])

\* What the iteration prints.
DiscoverMessage(zip_path) ==
    IF zip_path = None THEN <<"Warning: Tile not found">>
    ELSE IF zip_path[1].state = "notzip" THEN <<"Error reading zip">>
    ELSE IF Candidates(zip_path[1].members) # <<>> THEN <<>>
    ELSE IF NumFiles(zip_path[1].members) # <<>>
         THEN <<"ERROR: Found metadata file (.num) but NO elevation data">>
    ELSE <<"No valid data files found in zip">>

\* One iteration of the loops of lines 103-129.
Discover ==
    /\ pc = "discover"
    /\ todo # <<>>
    /\ LET cell == Head(todo)
           tile_name == get_tile_name(cell.lat * TicksPerDeg,
                                      cell.lon * TicksPerDeg)
       IN  \E globbed \in glob(tile_name, earthdata) :
             LET zip_path == find_tile_zip(globbed)
             IN  /\ lookups' = Append(lookups,
                        [lat |-> cell.lat, lon |-> cell.lon,
                         tile_name |-> tile_name])
                 /\ extraction_tasks' = TasksAfter(extraction_tasks, zip_path)
                 /\ log' = log \o DiscoverMessage(zip_path)
    /\ todo' = Tail(todo)
    /\ UNCHANGED <<pc, args, call, ret, earthdata, tpc, results, temp_dir,
                   src_files_to_mosaic, src_datasets, mosaic, out_image, samples, gdf, shp,
                   verifier, trace>>

\* Lines 131-133, and the entry into the try block (lines 151-154).
EndDiscovery ==
    /\ pc = "discover"
    /\ todo = <<>>
    /\ IF extraction_tasks = <<>>
       THEN /\ pc' = "exit_no_tiles"
            /\ log' = Append(log, "No tiles found. Exiting.")
            /\ UNCHANGED <<tpc, results, trace>>
       ELSE /\ pc' = "extract"
            /\ tpc' = [i \in 1..Len(extraction_tasks) |-> "pending"]
            /\ results' = [i \in 1..Len(extraction_tasks) |-> None]
            /\ trace' = Append(trace, "extract")
            /\ UNCHANGED log
    /\ UNCHANGED <<args, call, ret, earthdata, todo, lookups,
                   extraction_tasks, temp_dir, src_files_to_mosaic, src_datasets, mosaic,
                   out_image, samples, gdf, shp, verifier>>

-----------------------------------------------------------------------------
(* extract_tile_task (lines 19-37) and the fan-out (lines 152-168) *)

\* A file of the scratch directory is [zip, member, raster, state]: the
\* archive and member its bytes come from, the raster they encode, and
\* whether they are all there ("whole"),
\* cut short ("partial": the writer has not finished, or raised), or a mix
\* of what two writers of different archives wrote ("torn").
FileOf(task, state) ==
    [zip |-> PathOf(task.zip), member |-> task.target_file,
     raster |-> task.zip.raster, state |-> state]

Exists(path) == path \in DOMAIN temp_dir

SetResult(i, r) == results' = [results EXCEPT ![i] = r]

\* Lines 25-29: the path is computed and looked for.
TaskCheck(i) ==
    /\ pc = "extract"
    /\ tpc[i] = "pending"
    /\ IF Exists(ExpectedPath(extraction_tasks[i]))
       THEN /\ SetResult(i, Some(ExpectedPath(extraction_tasks[i])))
            /\ tpc' = [tpc EXCEPT ![i] = "done"]
       ELSE /\ tpc' = [tpc EXCEPT ![i] = "extracting"]
            /\ UNCHANGED results
    /\ UNCHANGED <<pc, args, call, ret, earthdata, todo, lookups,
                   extraction_tasks, temp_dir, src_files_to_mosaic, src_datasets, mosaic,
                   out_image, samples, gdf, shp, verifier, log, trace>>

\* Lines 31-33, first half: the archive and its member are opened, and the
\* target file is created or truncated.  A member that cannot be opened
\* raises before the target exists (lines 35-37).
TaskOpen(i) ==
    /\ pc = "extract"
    /\ tpc[i] = "extracting"
    /\ LET task == extraction_tasks[i]
       IN  IF task.zip.state = "badhdr"
           THEN /\ SetResult(i, None)
                /\ tpc' = [tpc EXCEPT ![i] = "done"]
                /\ log' = Append(log, "Error extracting")
                /\ UNCHANGED temp_dir
           ELSE /\ temp_dir' = (ExpectedPath(task) :> FileOf(task, "partial"))
                                  @@ temp_dir
                /\ tpc' = [tpc EXCEPT ![i] = "writing"]
                /\ UNCHANGED <<results, log>>
    /\ UNCHANGED <<pc, args, call, ret, earthdata, todo, lookups,
                   extraction_tasks, src_files_to_mosaic, src_datasets, mosaic, out_image,
                   samples, gdf, shp, verifier, trace>>

\* What lies at the path when writer i stops: its own bytes if no writer of
\* another archive opened the path meanwhile, otherwise possibly a mix.
Written(task, state) ==
    IF temp_dir[ExpectedPath(task)].zip = PathOf(task.zip)
    THEN {FileOf(task, state)}
    ELSE {FileOf(task, state), FileOf(task, "torn")}

\* Lines 33-37, second half: the member's bytes are copied and the task
\* returns; a member whose checksum is wrong raises after they were written.
TaskFinish(i) ==
    /\ pc = "extract"
    /\ tpc[i] = "writing"
    /\ LET task == extraction_tasks[i]
       IN  IF task.zip.state = "badcrc"
           THEN /\ \E f \in Written(task, "partial") :
                       temp_dir' = [temp_dir EXCEPT ![ExpectedPath(task)] = f]
                /\ SetResult(i, None)
                /\ log' = Append(log, "Error extracting")
           ELSE /\ \E f \in Written(task, "whole") :
                       temp_dir' = [temp_dir EXCEPT ![ExpectedPath(task)] = f]
                /\ SetResult(i, Some(ExpectedPath(task)))
                /\ UNCHANGED log
    /\ tpc' = [tpc EXCEPT ![i] = "done"]
    /\ UNCHANGED <<pc, args, call, ret, earthdata, todo, lookups,
                   extraction_tasks, src_files_to_mosaic, src_datasets, mosaic, out_image,
                   samples, gdf, shp, verifier, trace>>

\* Lines 158-168: executor.map has returned every result, in task order.
Collect ==
    /\ pc = "extract"
    /\ \A i \in 1..Len(extraction_tasks) : tpc[i] = "done"
    /\ src_files_to_mosaic' =
           Flatten([i \in 1..Len(extraction_tasks) |-> results[i]])
    /\ IF src_files_to_mosaic' = <<>>
       THEN /\ pc' = "exit_extract_failed"
            /\ log' = Append(log, "Extraction failed. No files to process.")
            /\ UNCHANGED trace
       ELSE /\ pc' = "read"
            /\ trace' = Append(trace, "read")
            /\ UNCHANGED log
    /\ UNCHANGED <<args, call, ret, earthdata, todo, lookups,
                   extraction_tasks, tpc, results, temp_dir, src_datasets, mosaic,
                   out_image, samples, gdf, shp, verifier>>

-----------------------------------------------------------------------------
(* main: read, merge, clip (lines 172-214) *)

\* A raster is [west, north, height, width, vals, nodata]: the coordinates
\* (in ticks) of its upper left corner, its size in pixels, the value of
\* each cell <<row, col>> (row 0 is the northern one), and its nodata value
\* as an option.
CellsOf(h, w) == (0..(h - 1)) \X (0..(w - 1))

\* Pixels along one side of a one-degree tile.
TilePixels == TicksPerDeg \div PixelTicks

\* rasterio.open of an extracted member: the tile that the file encodes.
OpenRaster(file) ==
    [west |-> file.raster.sw.lon * TicksPerDeg,
     north |-> (file.raster.sw.lat + 1) * TicksPerDeg,
     height |-> TilePixels, width |-> TilePixels,
     vals |-> file.raster.vals, nodata |-> file.raster.nodata]

\* The value that stands for "no data" where a raster has to be filled:
\* the raster's nodata value, or 0 when it has none.
FillOf(nodata) == IF nodata = None THEN 0 ELSE nodata[1]

\* Step 2 (lines 172-175): every extracted file is opened; a file that is
\* not a whole raster makes rasterio.open raise (lines 297-300).
Read ==
    /\ pc = "read"
    /\ IF \E i \in 1..Len(src_files_to_mosaic) :
             temp_dir[src_files_to_mosaic[i]].state # "whole"
       THEN /\ pc' = "error"
            /\ log' = Append(log, "An error occurred")
            /\ UNCHANGED <<src_datasets, trace>>
       ELSE /\ src_datasets' = [i \in 1..Len(src_files_to_mosaic) |->
                                   OpenRaster(temp_dir[src_files_to_mosaic[i]])]
            /\ pc' = "merge"
            /\ trace' = Append(trace, "merge")
            /\ UNCHANGED log
    /\ UNCHANGED <<args, call, ret, earthdata, todo, lookups,
                   extraction_tasks, tpc, results, temp_dir,
                   src_files_to_mosaic, mosaic, out_image, samples, gdf,
                   shp, verifier>>

SetMin(S) == CHOOSE x \in S : \A y \in S : x <= y
SetMax(S) == CHOOSE x \in S : \A y \in S : x >= y

RECURSIVE MergeCell(_, _, _, _)
\* rasterio.merge's "first" method for the cell whose upper left corner is
\* (x, y): the first dataset, in order, that has valid data there.
MergeCell(datasets, x, y, fill) ==
    IF datasets = <<>> THEN fill
    ELSE LET d == Head(datasets)
             c == (x - d.west) \div PixelTicks
             r == (d.north - y) \div PixelTicks
             covers == r \in 0..(d.height - 1) /\ c \in 0..(d.width - 1)
         IN  IF covers /\ (d.nodata = None \/ d.vals[<<r, c>>] # d.nodata[1])
             THEN d.vals[<<r, c>>]
             ELSE MergeCell(Tail(datasets), x, y, fill)

\* merge(src_datasets) with the metadata of lines 186-192: the union of the
\* datasets' extents, and the nodata value of the first dataset.
merge(datasets) ==
    LET idx == 1..Len(datasets)
        west == SetMin({datasets[i].west : i \in idx})
        north == SetMax({datasets[i].north : i \in idx})
        east == SetMax({datasets[i].west + datasets[i].width * PixelTicks :
                         i \in idx})
        south == SetMin({datasets[i].north - datasets[i].height * PixelTicks :
                          i \in idx})
        h == (north - south) \div PixelTicks
        w == (east - west) \div PixelTicks
        fill == FillOf(datasets[1].nodata)
    IN  [west |-> west, north |-> north, height |-> h, width |-> w,
         vals |-> [rc \in CellsOf(h, w) |->
                     MergeCell(datasets, west + rc[2] * PixelTicks,
                               north - rc[1] * PixelTicks, fill)],
         nodata |-> datasets[1].nodata]

\* Lines 177-193.
Merge ==
    /\ pc = "merge"
    /\ mosaic' = Some(merge(src_datasets))
    /\ pc' = "clip"
    /\ trace' = Append(trace, "clip")
    /\ UNCHANGED <<args, call, ret, earthdata, todo, lookups,
                   extraction_tasks, tpc, results, temp_dir,
                   src_files_to_mosaic, src_datasets, out_image, samples,
                   gdf, shp, verifier, log>>

\* box(min_lon, min_lat, max_lon, max_lat): the rectangle with these
\* corners, whatever the order of the two values of each axis.
BBox(a) ==
    [minx |-> Min(a.min_lon, a.max_lon), maxx |-> Max(a.min_lon, a.max_lon),
     miny |-> Min(a.min_lat, a.max_lat), maxy |-> Max(a.min_lat, a.max_lat)]

\* The window mask(..., crop=True) crops to: the pixels the rectangle's
\* extent touches, within the raster.
CropWindow(m, b) ==
    [col_start |-> Max(0, (b.minx - m.west) \div PixelTicks),
     col_stop |-> Min(m.width, CeilDiv(b.maxx - m.west, PixelTicks)),
     row_start |-> Max(0, (m.north - b.maxy) \div PixelTicks),
     row_stop |-> Min(m.height, CeilDiv(m.north - b.miny, PixelTicks))]

\* The centre of cell <<row, col>> of raster m: rasterio.transform.xy with
\* offset='center'.
CentreX(m, col) == m.west + col * PixelTicks + PixelTicks \div 2
CentreY(m, row) == m.north - row * PixelTicks - PixelTicks \div 2

\* Whether the rasterizer counts a pixel centre as inside the rectangle; a
\* centre that lies on its boundary goes the way on_edge says.
CentreInside(b, x, y, on_edge) ==
    IF b.minx < x /\ x < b.maxx /\ b.miny < y /\ y < b.maxy THEN TRUE
    ELSE IF x < b.minx \/ x > b.maxx \/ y < b.miny \/ y > b.maxy THEN FALSE
    ELSE on_edge

\* mask(dataset, [bbox], crop=True): the window's cells, each keeping its
\* value when its centre is inside the rectangle and set to the fill value
\* otherwise, with the window's transform.
mask(m, b, on_edge) ==
    LET win == CropWindow(m, b)
        h == win.row_stop - win.row_start
        w == win.col_stop - win.col_start
        west == m.west + win.col_start * PixelTicks
        north == m.north - win.row_start * PixelTicks
        cropped == [west |-> west, north |-> north]
    IN  [west |-> west, north |-> north, height |-> h, width |-> w,
         vals |-> [rc \in CellsOf(h, w) |->
                     IF CentreInside(b, CentreX(cropped, rc[2]),
                                     CentreY(cropped, rc[1]), on_edge)
                     THEN m.vals[<<rc[1] + win.row_start,
                                   rc[2] + win.col_start>>]
                     ELSE FillOf(m.nodata)],
         nodata |-> m.nodata]

\* Step 3 (lines 195-214).  A rectangle that touches no pixel of the mosaic
\* makes mask raise "Input shapes do not overlap raster".
Clip ==
    /\ pc = "clip"
    /\ LET win == CropWindow(mosaic[1], BBox(args))
       IN  IF win.col_stop <= win.col_start \/ win.row_stop <= win.row_start
           THEN /\ pc' = "error"
                /\ log' = Append(log, "An error occurred")
                /\ UNCHANGED <<out_image, trace>>
           ELSE /\ \E on_edge \in BOOLEAN :
                      out_image' = Some(mask(mosaic[1], BBox(args), on_edge))
                /\ pc' = "sample"
                /\ trace' = Append(trace, "sample")
                /\ UNCHANGED log
    /\ UNCHANGED <<args, call, ret, earthdata, todo, lookups,
                   extraction_tasks, tpc, results, temp_dir,
                   src_files_to_mosaic, src_datasets, mosaic, samples, gdf,
                   shp, verifier>>

-----------------------------------------------------------------------------
(* main: points, geometry, saving (lines 216-295) *)

\* data[::step, ::step]
Strided(img, step) ==
    LET h == CeilDiv(img.height, step)
        w == CeilDiv(img.width, step)
    IN  [height |-> h, width |-> w,
         vals |-> [rc \in CellsOf(h, w) |->
                     img.vals[<<rc[1] * step, rc[2] * step>>]]]

\* np.indices(shape), each array flattened in row-major order.
IndexRows(h, w) == [n \in 1..(h * w) |-> (n - 1) \div w]
IndexCols(h, w) == [n \in 1..(h * w) |-> (n - 1) % w]

\* data.flatten()
FlatVals(img) ==
    [n \in 1..(img.height * img.width) |->
        img.vals[<<(n - 1) \div img.width, (n - 1) % img.width>>]]

\* Multiplication of an index array by a number.
Scaled(xs, k) == [n \in 1..Len(xs) |-> xs[n] * k]

RECURSIVE Compress(_, _)
\* xs[valid_mask]: the elements of xs at the positions where the mask holds.
Compress(xs, valid) ==
    IF xs = <<>> THEN <<>>
    ELSE (IF Head(valid) THEN <<Head(xs)>> ELSE <<>>)
           \o Compress(Tail(xs), Tail(valid))

\* A variant without the multiplications of lines 226-227.
Sampled_Unscaled(image, step) ==
    LET data == IF step > 1 THEN Strided(image, step)
                ELSE [height |-> image.height, width |-> image.width,
                      vals |-> image.vals]
    IN  [rows |-> IndexRows(data.height, data.width),
         cols |-> IndexCols(data.height, data.width),
         elevations_flat |-> FlatVals(data)]

\* Lines 219-233: the band, strided when step > 1, and the row and column
\* of each of its cells in the clipped raster.
Sampled(image, step) ==
    LET data == IF step > 1 THEN Strided(image, step)
                ELSE [height |-> image.height, width |-> image.width,
                      vals |-> image.vals]
        rows == IF step > 1
                THEN Scaled(IndexRows(data.height, data.width), step)
                ELSE IndexRows(data.height, data.width)
        cols == IF step > 1
                THEN Scaled(IndexCols(data.height, data.width), step)
                ELSE IndexCols(data.height, data.width)
    IN  [rows |-> rows, cols |-> cols, elevations_flat |-> FlatVals(data)]

\* A variant that applies the mask of line 236 to the elevations alone.
Filtered_ElevsOnly(flat) ==
    LET valid_mask == [n \in 1..Len(flat.elevations_flat) |->
                          flat.elevations_flat[n] # NODATA]
    IN  [rows |-> SubSeq(flat.rows, 1,
                         Len(Compress(flat.elevations_flat, valid_mask))),
         cols |-> SubSeq(flat.cols, 1,
                         Len(Compress(flat.elevations_flat, valid_mask))),
         elevs |-> Compress(flat.elevations_flat, valid_mask),
         xs |-> <<>>, ys |-> <<>>]

\* Lines 235-240: the nodata filter.
Filtered(flat) ==
    LET valid_mask == [n \in 1..Len(flat.elevations_flat) |->
                          flat.elevations_flat[n] # NODATA]
    IN  [rows |-> Compress(flat.rows, valid_mask),
         cols |-> Compress(flat.cols, valid_mask),
         elevs |-> Compress(flat.elevations_flat, valid_mask),
         xs |-> <<>>, ys |-> <<>>]

\* A variant without the exit of lines 242-246.
Sample_KeepsGoing ==
    /\ pc = "sample"
    /\ samples' = Filtered(Sampled(out_image[1], args.step))
    /\ pc' = "transform"
    /\ trace' = Append(trace, "transform")
    /\ UNCHANGED <<args, call, ret, earthdata, todo, lookups,
                   extraction_tasks, tpc, results, temp_dir,
                   src_files_to_mosaic, src_datasets, mosaic, out_image,
                   gdf, shp, verifier, log>>

\* Step 4 (lines 216-252).
Sample ==
    /\ pc = "sample"
    /\ samples' = Filtered(Sampled(out_image[1], args.step))
    /\ IF samples'.elevs = <<>>
       THEN /\ pc' = "exit_no_points"
            /\ log' = Append(log, "No valid elevation points found in the area.")
            /\ UNCHANGED trace
       ELSE /\ pc' = "transform"
            /\ trace' = Append(trace, "transform")
            /\ UNCHANGED log
    /\ UNCHANGED <<args, call, ret, earthdata, todo, lookups,
                   extraction_tasks, tpc, results, temp_dir,
                   src_files_to_mosaic, src_datasets, mosaic, out_image,
                   gdf, shp, verifier>>

\* Line 257: rasterio.transform.xy(out_transform, rows, cols).
Transform ==
    /\ pc = "transform"
    /\ samples' = [samples EXCEPT
           !.xs = [n \in 1..Len(samples.cols) |->
                      CentreX(out_image[1], samples.cols[n])],
           !.ys = [n \in 1..Len(samples.rows) |->
                      CentreY(out_image[1], samples.rows[n])]]
    /\ pc' = "points"
    /\ trace' = Append(trace, "points")
    /\ UNCHANGED <<args, call, ret, earthdata, todo, lookups,
                   extraction_tasks, tpc, results, temp_dir,
                   src_files_to_mosaic, src_datasets, mosaic, out_image,
                   gdf, shp, verifier, log>>

\* Lines 260-269: the point set, each point with its elevation and label.
Points ==
    /\ pc = "points"
    /\ gdf' = [n \in 1..Len(samples.elevs) |->
                 [x |-> samples.xs[n], y |-> samples.ys[n],
                  elevation |-> samples.elevs[n],
                  city |-> format_coord_val(args.min_lat, TRUE)
                             \o format_coord_val(args.min_lon, FALSE)]]
    /\ pc' = "save"
    /\ trace' = Append(trace, "save")
    /\ UNCHANGED <<args, call, ret, earthdata, todo, lookups,
                   extraction_tasks, tpc, results, temp_dir,
                   src_files_to_mosaic, src_datasets, mosaic, out_image,
                   samples, shp, verifier, log>>

\* Step 6 (lines 271-295): the file is written, then the scratch directory
\* is removed, or left as it is when rmtree fails.
Save ==
    /\ pc = "save"
    /\ shp' = Append(shp, [folder |-> converter_folder_name(args),
                           points |-> gdf])
    /\ temp_dir' \in {<<>>, temp_dir}
    /\ pc' = "done"
    /\ log' = Append(log, "Done.")
    /\ UNCHANGED <<args, call, ret, earthdata, todo, lookups,
                   extraction_tasks, tpc, results, src_files_to_mosaic,
                   src_datasets, mosaic, out_image, samples, gdf, verifier,
                   trace>>

\* The positions inside the try block of lines 151-300.
TryStages == {"extract", "read", "merge", "clip", "sample", "transform",
              "points", "save"}

\* Lines 297-300: a library call of the current stage raises (in the last
\* stage: to_file, before it has produced a file).
Raise ==
    /\ pc \in TryStages
    /\ pc' = "error"
    /\ log' = Append(log, "An error occurred")
    /\ UNCHANGED <<args, call, ret, earthdata, todo, lookups,
                   extraction_tasks, tpc, results, temp_dir,
                   src_files_to_mosaic, src_datasets, mosaic, out_image,
                   samples, gdf, shp, verifier, trace>>

-----------------------------------------------------------------------------
(* The functions on their own: calls with arguments drawn from small sets *)

\* Whole degrees a coordinate is drawn from: -MaxDeg .. MaxDeg.
MaxDeg == 1

\* Coordinates, in ticks: whole degrees, and the eighths .125, .5 and .875
\* above each.
Coords == {d * TicksPerDeg + f : d \in (-MaxDeg)..MaxDeg, f \in {0, 1, 4, 7}}

\* Latitudes and longitudes of named places, in ticks: 37.5 and 89.875
\* north, 9.125 and 10 south; 99.5 and 100 east, 122.125 and 180 west.
FarLats == {300, 719, -73, -80}
FarLons == {796, 800, -977, -1440}

\* The state of main() before it starts, for the calls that do not run it.
NotRunning ==
    /\ args = [min_lon |-> 0, max_lon |-> 0, min_lat |-> 0, max_lat |-> 0,
               step |-> 1]
    /\ todo = <<>>
    /\ lookups = <<>>
    /\ extraction_tasks = <<>>
    /\ tpc = <<>>
    /\ results = <<>>
    /\ temp_dir = <<>>
    /\ src_files_to_mosaic = <<>>
    /\ src_datasets = <<>>
    /\ mosaic = None
    /\ out_image = None
    /\ samples = [rows |-> <<>>, cols |-> <<>>, elevs |-> <<>>,
                  xs |-> <<>>, ys |-> <<>>]
    /\ gdf = <<>>
    /\ shp = <<>>
    /\ log = <<>>
    /\ trace = <<>>

InitTileName ==
    /\ pc = "call"
    /\ call \in [lat : Coords \cup FarLats, lon : Coords \cup FarLons]
    /\ ret = None
    /\ earthdata = {}
    /\ verifier = None
    /\ NotRunning

\* A call get_tile_name(lat, lon).
CallGetTileName ==
    /\ pc = "call"
    /\ ret' = get_tile_name(call.lat, call.lon)
    /\ pc' = "returned"
    /\ UNCHANGED <<args, call, earthdata, todo, lookups, extraction_tasks,
                   tpc, results, temp_dir, src_files_to_mosaic, src_datasets,
                   mosaic, out_image, samples, gdf, shp, verifier, log, trace>>

SpecTileName == InitTileName /\ [][CallGetTileName]_vars

InitFolder ==
    /\ pc = "call"
    /\ call \in [min_lat : Coords, max_lat : {-4, 0, 9},
                 min_lon : Coords, max_lon : {-977, 8, 15}]
    /\ ret = None
    /\ earthdata = {}
    /\ verifier = None
    /\ NotRunning

\* The converter names its output folder (lines 273-275).
CallConverterFolder ==
    /\ pc = "call"
    /\ ret' = converter_folder_name(call)
    /\ pc' = "returned"
    /\ UNCHANGED <<args, call, earthdata, todo, lookups, extraction_tasks,
                   tpc, results, temp_dir, src_files_to_mosaic, src_datasets,
                   mosaic, out_image, samples, gdf, shp, verifier, log, trace>>

\* The verifier, given the same bounds, derives the folder (lines 95-127).
VerifierMain ==
    /\ verifier = None
    /\ verifier' = Some(verifier_folder_name(call))
    /\ UNCHANGED <<pc, args, call, ret, earthdata, todo, lookups,
                   extraction_tasks, tpc, results, temp_dir,
                   src_files_to_mosaic, src_datasets, mosaic, out_image,
                   samples, gdf, shp, log, trace>>

NextFolder == CallConverterFolder \/ VerifierMain

SpecFolder == InitFolder /\ [][NextFolder]_vars

-----------------------------------------------------------------------------
(* Archives *)

EarthdataDir == <<"e", "a", "r", "t", "h", "d", "a", "t", "a">>

\* A directory below it whose own name holds ".hgt.zip".
UnpackedDir ==
    EarthdataDir \o <<"/", "o", "l", "d">> \o HgtZipExt \o <<".", "d">>

HgtExt == <<".", "h", "g", "t">>
NumExt == <<".", "n", "u", "m">>

\* The tile name of the cell whose south-west corner is (lat, lon) degrees.
TileOf(lat, lon) == get_tile_name(lat * TicksPerDeg, lon * TicksPerDeg)

\* The raster of a tile: each cell holds a value of its own, code plus ten
\* times its row plus its column, except the cells of holes, which hold
\* the nodata value.
TileRaster(lat, lon, code, holes, nodata) ==
    [sw |-> [lat |-> lat, lon |-> lon],
     vals |-> [rc \in CellsOf(TilePixels, TilePixels) |->
                 IF rc \in holes THEN FillOf(nodata)
                 ELSE code + 10 * rc[1] + rc[2]],
     nodata |-> nodata]

Archive(dir, base, members, state, raster) ==
    [dir |-> dir, base |-> base, members |-> members, state |-> state,
     raster |-> raster]

\* An SRTM elevation archive <tile>.hgt.zip holding <tile>.hgt.
HgtArchive(lat, lon, state, holes) ==
    Archive(EarthdataDir, TileOf(lat, lon) \o HgtZipExt,
            <<TileOf(lat, lon) \o HgtExt>>, state,
            TileRaster(lat, lon, 100, holes, Some(NODATA)))

\* The archive <tile>.num.zip, in directory dir, that holds only the .num
\* metadata of the tile.
NumArchive(dir, lat, lon) ==
    Archive(dir, TileOf(lat, lon) \o NumExt \o ZipExt,
            <<TileOf(lat, lon) \o NumExt>>, "ok",
            TileRaster(lat, lon, 0, {}, Some(NODATA)))

\* Finder metadata beside an elevation archive: ._<tile>.hgt.zip.
MacMetadata(lat, lon) ==
    Archive(EarthdataDir, <<".", "_">> \o TileOf(lat, lon) \o HgtZipExt,
            <<>>, "notzip", TileRaster(lat, lon, 0, {}, Some(NODATA)))

\* A backup <tile>.hgt.zip.bak, which does not end in .zip.
Backup(lat, lon) ==
    Archive(EarthdataDir,
            TileOf(lat, lon) \o HgtZipExt \o <<".", "b", "a", "k">>,
            <<TileOf(lat, lon) \o HgtExt>>, "ok",
            TileRaster(lat, lon, 100, {}, Some(NODATA)))

\* One archive named after two neighbouring tiles, holding the western one:
\* <tile>_<tile to the east>.hgt.zip.
PairArchive(lat, lon, state) ==
    Archive(EarthdataDir,
            TileOf(lat, lon) \o <<"_">> \o TileOf(lat, lon + 1) \o HgtZipExt,
            <<TileOf(lat, lon) \o HgtExt>>, state,
            TileRaster(lat, lon, 300, {}, Some(NODATA)))

\* The files find_tile_zip is tried on: around the tiles S01W001 and
\* S01E000.
FindZipFiles ==
    {HgtArchive(-1, -1, "ok", {}), NumArchive(EarthdataDir, -1, -1),
     NumArchive(UnpackedDir, -1, -1), MacMetadata(-1, -1), Backup(-1, -1),
     HgtArchive(-1, 0, "ok", {}), PairArchive(-1, -1, "ok")}

InitFindZip ==
    /\ pc = "call"
    /\ call \in [tile_name : {TileOf(-1, -1), TileOf(-1, 0)}]
    /\ ret = None
    /\ earthdata \in SUBSET FindZipFiles
    /\ verifier = None
    /\ NotRunning

\* A call find_tile_zip(tile_name, earthdata_dir).
CallFindTileZip ==
    /\ pc = "call"
    /\ \E globbed \in glob(call.tile_name, earthdata) :
          ret' = find_tile_zip(globbed)
    /\ pc' = "returned"
    /\ UNCHANGED <<args, call, earthdata, todo, lookups, extraction_tasks,
                   tpc, results, temp_dir, src_files_to_mosaic, src_datasets,
                   mosaic, out_image, samples, gdf, shp, verifier, log, trace>>

SpecFindZip == InitFindZip /\ [][CallFindTileZip]_vars

-----------------------------------------------------------------------------
(* Runs of main *)

\* The state main() starts in, given its command line and the archives.
Started(a, dirents) ==
    /\ pc = "start"
    /\ args = a
    /\ earthdata = dirents
    /\ call = [none |-> TRUE]
    /\ ret = None
    /\ verifier = None
    /\ todo = <<>>
    /\ lookups = <<>>
    /\ extraction_tasks = <<>>
    /\ tpc = <<>>
    /\ results = <<>>
    /\ temp_dir = <<>>
    /\ src_files_to_mosaic = <<>>
    /\ src_datasets = <<>>
    /\ mosaic = None
    /\ out_image = None
    /\ samples = [rows |-> <<>>, cols |-> <<>>, elevs |-> <<>>,
                  xs |-> <<>>, ys |-> <<>>]
    /\ gdf = <<>>
    /\ shp = <<>>
    /\ log = <<>>
    /\ trace = <<>>

\* An archive with no elevation data and no metadata in it.
ReadmeArchive(lat, lon) ==
    Archive(EarthdataDir, TileOf(lat, lon) \o ZipExt,
            <<<<"r", "e", "a", "d", "m", "e">>>>, "ok",
            TileRaster(lat, lon, 0, {}, Some(NODATA)))

\* A GeoTIFF archive <tile>.zip holding <tile>.tif, with the nodata value
\* its file declares (None when it declares none).
TifArchive(lat, lon, holes, nodata) ==
    Archive(EarthdataDir, TileOf(lat, lon) \o ZipExt,
            <<TileOf(lat, lon) \o <<".", "t", "i", "f">>>>, "ok",
            TileRaster(lat, lon, 200, holes, nodata))

\* Discovery on its own: boxes of every shape over a fixed directory.
DiscoveryFiles ==
    {HgtArchive(-1, -1, "ok", {}), PairArchive(-1, -1, "ok"),
     NumArchive(EarthdataDir, 0, -1), HgtArchive(0, 0, "notzip", {}),
     ReadmeArchive(-1, 1)}

DiscoveryCoords == {d * TicksPerDeg + f : d \in (-MaxDeg)..MaxDeg, f \in {0, 4}}

InitDiscovery ==
    \E a \in [min_lat : DiscoveryCoords, max_lat : DiscoveryCoords,
              min_lon : {-9, -8, 0, 7}, max_lon : {-9, -8, 0, 7},
              step : {1}] :
        Started(a, DiscoveryFiles)

NextDiscovery == Ranges \/ Discover \/ EndDiscovery

SpecDiscovery == InitDiscovery /\ [][NextDiscovery]_vars

\* Extraction: a box over the cells S01W001 and S01E000, and every choice,
\* for three archives, of being absent, sound, or broken in one of two ways.
\* The pair archive matches both cells, and holds a member of the same name
\* as the elevation archive of the western cell.
ZipStates == {"ok", "badcrc", "badhdr"}

ExtractionWorlds ==
    {a \cup b \cup p :
        a \in {{}} \cup {{HgtArchive(-1, -1, st, {})} : st \in ZipStates},
        b \in {{}} \cup {{HgtArchive(-1, 0, st, {})} : st \in ZipStates},
        p \in {{}} \cup {{PairArchive(-1, -1, st)} : st \in ZipStates}}

InitExtraction ==
    \E dirents \in ExtractionWorlds :
        Started([min_lat |-> -6, max_lat |-> -2, min_lon |-> -6,
                 max_lon |-> 2, step |-> 1], dirents)

NextExtraction ==
    \/ Ranges
    \/ Discover
    \/ EndDiscovery
    \/ \E i \in DOMAIN tpc : TaskCheck(i) \/ TaskOpen(i) \/ TaskFinish(i)
    \/ Collect

SpecExtraction == InitExtraction /\ [][NextExtraction]_vars

\* Whole runs: the western tile with every pattern of nodata cells, as an
\* SRTM archive or as a GeoTIFF archive with another or no nodata value,
\* with or without its eastern neighbour; boxes whose edges cut pixels on
\* either side of their centres; every step up to MaxStep.
MaxStep == 3

HolePatterns ==
    {{}, CellsOf(TilePixels, TilePixels)}
      \cup {{rc} : rc \in CellsOf(TilePixels, TilePixels)}

WesternTiles ==
    {HgtArchive(-1, -1, "ok", holes) : holes \in HolePatterns}
      \cup {TifArchive(-1, -1, holes, nodata) :
               holes \in {{}, {<<1, 1>>}}, nodata \in {None, Some(-9999)}}
      \cup {HgtArchive(-1, -1, "badcrc", {})}

RunWorlds ==
    {{w} \cup e : w \in WesternTiles,
                  e \in {{}, {HgtArchive(-1, 0, "ok", {<<0, 0>>})},
                         {HgtArchive(-1, 0, "ok", {<<1, 0>>})}}}

RunBoxes ==
    [min_lon : {-7, -6, -3}, max_lon : {-5, -1, 3}, min_lat : {-7, -5},
     max_lat : {-3, -1}, step : 0..MaxStep]
      \cup {[min_lon |-> 9, max_lon |-> 10, min_lat |-> 9, max_lat |-> 10,
             step |-> 1]}

Init == \E a \in RunBoxes, dirents \in RunWorlds : Started(a, dirents)

Next ==
    \/ Ranges
    \/ Discover
    \/ EndDiscovery
    \/ \E i \in DOMAIN tpc : TaskCheck(i) \/ TaskOpen(i) \/ TaskFinish(i)
    \/ Collect
    \/ Read
    \/ Merge
    \/ Clip
    \/ Sample
    \/ Transform
    \/ Points
    \/ Save
    \/ Raise

Spec == Init /\ [][Next]_vars

-----------------------------------------------------------------------------
(* Properties of get_tile_name and of the folder names *)

IsDigit(c) == \E d \in 0..9 : DigitChars[d + 1] = c
DigitVal(c) == CHOOSE d \in 0..9 : DigitChars[d + 1] = c

RECURSIVE NumberOf(_)
\* The number a sequence of digits writes.
NumberOf(ds) ==
    IF ds = <<>> THEN 0
    ELSE 10 * NumberOf(SubSeq(ds, 1, Len(ds) - 1)) + DigitVal(ds[Len(ds)])

\* Whether the one-degree cell whose south-west corner is (i, j), in whole
\* degrees, holds the point (lat, lon), in ticks.
CellHolds(i, j, lat, lon) ==
    /\ i * TicksPerDeg <= lat /\ lat < (i + 1) * TicksPerDeg
    /\ j * TicksPerDeg <= lon /\ lon < (j + 1) * TicksPerDeg

\* The south-west corner a tile name of 7 characters denotes.
CornerLat(name) ==
    (IF name[1] = "S" THEN -1 ELSE 1) * NumberOf(SubSeq(name, 2, 3))
CornerLon(name) ==
    (IF name[4] = "W" THEN -1 ELSE 1) * NumberOf(SubSeq(name, 5, 7))

\* C1: get_tile_name names the tile by its south-west corner.  The name is
\* a hemisphere letter (N when lat >= 0, S otherwise), two digits, a letter
\* (E when lon >= 0, W otherwise) and three digits; read back as signed
\* numbers, the digits are the corner of the one-degree cell that holds
\* (lat, lon).  So every point with 37 <= lat < 38 and -123 <= lon < -122
\* gets N37W123, and every point with -1 <= lat < 0 an S01 tile.
C1_TileNameIsSouthWestCorner ==
    pc = "returned" =>
        /\ Len(ret) = 7
        /\ ret[1] = (IF call.lat >= 0 THEN "N" ELSE "S")
        /\ ret[4] = (IF call.lon >= 0 THEN "E" ELSE "W")
        /\ \A k \in {2, 3, 5, 6, 7} : IsDigit(ret[k])
        /\ CellHolds(CornerLat(ret), CornerLon(ret), call.lat, call.lon)
        /\ CellHolds(37, -123, call.lat, call.lon)
              => ret = <<"N", "3", "7", "W", "1", "2", "3">>
        /\ (-TicksPerDeg <= call.lat /\ call.lat < 0)
              => SubSeq(ret, 1, 3) = <<"S", "0", "1">>

\* A call with a fractional southern latitude and a fractional western
\* longitude has returned.
C1_Witness ==
    /\ pc = "returned"
    /\ call.lat = -4
    /\ call.lon = -977
    /\ ret = <<"S", "0", "1", "W", "1", "2", "3">>

Count(s, c) == Cardinality({k \in 1..Len(s) : s[k] = c})

\* C6: given the same four bounds, the verifier derives the folder name
\* under which the converter writes terrain.shp; the name is the formatted
\* minimum corner, an underscore and the formatted maximum corner, each
\* bound written with a decimal point exactly when it is not whole.
C6_VerifierFindsConverterFolder ==
    (pc = "returned" /\ verifier # None) =>
        /\ verifier[1] = ret
        /\ Count(ret, "_") = 1
        /\ Count(ret, ".") =
              Cardinality({f \in {"min_lat", "max_lat", "min_lon", "max_lon"} :
                              call[f] % TicksPerDeg # 0})
        /\ ret[1] = (IF call.min_lat >= 0 THEN "N" ELSE "S")

\* Both programs have named the folder for bounds of which some are
\* fractional and some negative.
C6_Witness ==
    /\ pc = "returned"
    /\ verifier # None
    /\ call.min_lat = -7
    /\ call.max_lon = -977
    /\ call.max_lat = 0
    /\ verifier[1] = ret
    /\ SubSeq(ret, 1, 5) = <<"S", "0", ".", "8", "8">>

-----------------------------------------------------------------------------
(* Properties of find_tile_zip *)

\* The archives the claim speaks of: below the search directory, the file
\* name holds the tile name and ends in .zip, and does not start with "._".
NamedMatches(tile_name, dirents) ==
    {f \in dirents : /\ Contains(f.base, tile_name)
                     /\ EndsWith(f.base, ZipExt)
                     /\ ~StartsWith(f.base, <<".", "_">>)}

\* An elevation archive: a file whose name ends in .hgt.zip, in any case.
IsElevationArchive(f) == EndsWith(Lower(f.base), HgtZipExt)

\* C3: find_tile_zip prefers elevation archives: it returns None when no
\* archive matches, otherwise one of the matches; an elevation archive
\* whenever one is among the matches; never a "._" metadata file.
C3_PrefersElevationArchives ==
    pc = "returned" =>
        LET matches == NamedMatches(call.tile_name, earthdata)
        IN  /\ (ret = None) <=> (matches = {})
            /\ ret # None => ret[1] \in matches
            /\ (\E f \in matches : IsElevationArchive(f))
                  => IsElevationArchive(ret[1])

-----------------------------------------------------------------------------
(* Properties of tile discovery *)

\* Whether the whole degree i lies between the floors of lo and hi, said
\* without floors: the cell [i, i + 1) ends above lo and starts at or below
\* hi.
Between(i, lo, hi) == lo < (i + 1) * TicksPerDeg /\ i * TicksPerDeg <= hi

\* The lookups of cell (i, j) so far.
LookupsOf(i, j) ==
    {k \in 1..Len(lookups) : lookups[k].lat = i /\ lookups[k].lon = j}

\* Whether the loops of discovery have ended.
Discovered == pc \notin {"start", "discover"} \/ (pc = "discover" /\ todo = <<>>)

\* C2: discovery looks up one tile name for each whole-degree cell between
\* the floors of the bounds and for no other cell, names distinct cells
\* differently, misses no cell that the box overlaps, and, when a minimum
\* exceeds its maximum by a whole cell or more, looks up nothing and ends
\* with "No tiles found", nothing extracted and nothing written.
C2_DiscoveryCoversTheBox ==
    Discovered =>
        /\ \A i, j \in (-MaxDeg - 2)..(MaxDeg + 2) :
              Cardinality(LookupsOf(i, j)) =
                  IF /\ Between(i, args.min_lat, args.max_lat)
                     /\ Between(j, args.min_lon, args.max_lon)
                  THEN 1 ELSE 0
        /\ \A k \in 1..Len(lookups) :
              /\ lookups[k].lat \in (-MaxDeg - 2)..(MaxDeg + 2)
              /\ lookups[k].lon \in (-MaxDeg - 2)..(MaxDeg + 2)
              /\ CornerLat(lookups[k].tile_name) = lookups[k].lat
              /\ CornerLon(lookups[k].tile_name) = lookups[k].lon
        /\ \A lat \in args.min_lat..args.max_lat,
              lon \in args.min_lon..args.max_lon :
              \E k \in 1..Len(lookups) :
                  CellHolds(lookups[k].lat, lookups[k].lon, lat, lon)
        /\ (\/ args.min_lat >= args.max_lat + TicksPerDeg
            \/ args.min_lon >= args.max_lon + TicksPerDeg)
              => /\ lookups = <<>>
                 /\ pc = "exit_no_tiles" \/ pc = "discover"
                 /\ pc = "exit_no_tiles" =>
                        log = <<"No tiles found. Exiting.">>
                 /\ temp_dir = <<>>
                 /\ shp = <<>>

\* Discovery has ended for a box with fractional bounds that overlaps four
\* cells around the origin, each looked up.
C2_Witness ==
    /\ pc = "extract"
    /\ args.min_lat = -4 /\ args.max_lat = 4
    /\ args.min_lon = -8 /\ args.max_lon = 7
    /\ Len(lookups) = 4
    /\ lookups[1].tile_name = <<"S", "0", "1", "W", "0", "0", "1">>

-----------------------------------------------------------------------------
(* Properties of extraction *)

Tasks == 1..Len(extraction_tasks)

\* Whether map has returned and lines 161-168 have run.
Collected == pc \in {"read", "exit_extract_failed"}

\* The positions, in order, of the tasks that returned a path.
RECURSIVE PathsOfSucceeded(_)
PathsOfSucceeded(n) ==
    IF n = 0 THEN <<>>
    ELSE PathsOfSucceeded(n - 1)
           \o (IF results[n] = None THEN <<>>
               ELSE <<ExpectedPath(extraction_tasks[n])>>)

\* C5: extraction skips what fails, task by task.  A task that raises
\* returns None and is logged; whether a task returns its path depends on
\* its own archive alone; no file passed on is one that a raising task
\* left; the files passed on are the expected paths of the tasks that
\* returned one, in task order; and the run stops before reading only when
\* every task failed.
C5_SkipOnFailure ==
    pc \in {"extract", "read", "exit_extract_failed"} =>
        /\ \A i \in Tasks : tpc[i] = "done" =>
              /\ results[i] \in {None, Some(ExpectedPath(extraction_tasks[i]))}
              /\ (results[i] # None) <=> (extraction_tasks[i].zip.state = "ok")
        /\ Count(log, "Error extracting") =
              Cardinality({i \in Tasks : tpc[i] = "done" /\ results[i] = None})
        /\ Collected =>
              /\ \A i \in Tasks : tpc[i] = "done"
              /\ src_files_to_mosaic = PathsOfSucceeded(Len(extraction_tasks))
              /\ \A k \in 1..Len(src_files_to_mosaic) :
                    temp_dir[src_files_to_mosaic[k]].state # "partial"
              /\ (pc = "exit_extract_failed") <=>
                    (\A i \in Tasks : results[i] = None)

RECURSIVE InOrder(_, _)
\* The results of the tasks run one at a time, in order, in a scratch
\* directory that holds the paths of present.
InOrder(tasks, present) ==
    IF tasks = <<>> THEN <<>>
    ELSE LET task == Head(tasks)
             path == ExpectedPath(task)
         IN  IF path \in present
             THEN <<Some(path)>> \o InOrder(Tail(tasks), present)
             ELSE IF task.zip.state = "badhdr"
             THEN <<None>> \o InOrder(Tail(tasks), present)
             ELSE IF task.zip.state = "badcrc"
             THEN <<None>> \o InOrder(Tail(tasks), present \cup {path})
             ELSE <<Some(path)>> \o InOrder(Tail(tasks), present \cup {path})

\* C9: the extraction tasks are independent.  In every interleaving each
\* task that returned a path has left there the whole member of its own
\* archive, and the results are those of the tasks run one at a time, in
\* order, from an empty scratch directory.
C9_TasksAreIndependent ==
    Collected =>
        /\ \A i \in Tasks : results[i] # None =>
              temp_dir[results[i][1]] = FileOf(extraction_tasks[i], "whole")
        /\ results = InOrder(extraction_tasks, {})

-----------------------------------------------------------------------------
(* Properties of the points *)

\* The cells of the clipped raster that a step samples.
SampledCells(img, step) ==
    {rc \in CellsOf(img.height, img.width) :
        step <= 1 \/ (rc[1] % step = 0 /\ rc[2] % step = 0)}

\* The point of cell rc of the clipped raster: its centre and its value.
PointOf(img, rc) ==
    [x |-> CentreX(img, rc[2]), y |-> CentreY(img, rc[1]),
     elevation |-> img.vals[rc]]

\* A written point without its label.
Bare(p) == [x |-> p.x, y |-> p.y, elevation |-> p.elevation]

\* Whether the file has been written.
FileWritten == pc = "done" /\ shp # <<>>

\* C4: the file holds one point per valid sample.  Each sampled cell whose
\* value is not -32768 has exactly one point, at its centre and with its
\* own value; there is no other point, so none for a cell of value -32768.
C4_OnePointPerValidSample ==
    FileWritten =>
        LET img == out_image[1]
            points == shp[1].points
            valid == {rc \in SampledCells(img, args.step) :
                         img.vals[rc] # NODATA}
        IN  /\ Len(points) = Cardinality(valid)
            /\ \A rc \in valid :
                  Cardinality({n \in 1..Len(points) :
                                  Bare(points[n]) = PointOf(img, rc)}) = 1
            /\ \A n \in 1..Len(points) : points[n].elevation # NODATA

\* A file was written from a clipped raster of which a sampled cell holds
\* -32768 between cells that hold elevations.
C4_Witness ==
    /\ FileWritten
    /\ args.step = 1
    /\ out_image[1].height = 2 /\ out_image[1].width = 2
    /\ out_image[1].vals[<<0, 1>>] = NODATA
    /\ Len(shp[1].points) = 3
    /\ shp[1].points[2].elevation = 110

\* C7: the output is clipped to the box.  Every written point lies in
\* [min_lon, max_lon] x [min_lat, max_lat].
C7_PointsInsideTheBox ==
    FileWritten =>
        \A n \in 1..Len(shp[1].points) :
            /\ args.min_lon <= shp[1].points[n].x
            /\ shp[1].points[n].x <= args.max_lon
            /\ args.min_lat <= shp[1].points[n].y
            /\ shp[1].points[n].y <= args.max_lat

\* The points main writes for a clipped raster and a step.
PointsFor(img, step) ==
    LET kept == Filtered(Sampled(img, step))
    IN  {[x |-> CentreX(img, kept.cols[n]), y |-> CentreY(img, kept.rows[n]),
          elevation |-> kept.elevs[n]] : n \in 1..Len(kept.elevs)}

\* C8: downsampling is a stride that keeps positions.  The written points
\* are those of the valid cells whose row and column are both multiples of
\* the step, each at the centre its cell has in the clipped raster, hence
\* among the points that step 1 gives for the same raster; with a step of
\* 1 or less they are the points of all valid cells.
C8_StrideKeepsPositions ==
    FileWritten =>
        LET img == out_image[1]
            written == {Bare(shp[1].points[n]) : n \in 1..Len(shp[1].points)}
            all == {PointOf(img, rc) :
                       rc \in {c \in CellsOf(img.height, img.width) :
                                  img.vals[c] # NODATA}}
        IN  /\ written \subseteq PointsFor(img, 1)
            /\ args.step > 1 =>
                  written = {PointOf(img, rc) :
                                rc \in {c \in CellsOf(img.height, img.width) :
                                           /\ c[1] % args.step = 0
                                           /\ c[2] % args.step = 0
                                           /\ img.vals[c] # NODATA}}
            /\ args.step <= 1 => written = all

\* A file was written with step 2 from a clipped raster of two rows and
\* three columns without a hole in row 0: it holds the points of columns 0
\* and 2 of row 0, and no other.
C8_Witness ==
    /\ FileWritten
    /\ args.step = 2
    /\ out_image[1].width = 3
    /\ out_image[1].height = 2
    /\ \A c \in 0..2 : out_image[1].vals[<<0, c>>] # NODATA
    /\ Len(shp[1].points) = 2
    /\ shp[1].points[2].x = CentreX(out_image[1], 2)

-----------------------------------------------------------------------------
(* Properties of the pipeline *)

\* The stages in the order of the specification.
Stages == <<"discover", "extract", "read", "merge", "clip", "sample",
            "transform", "points", "save">>

=============================================================================
